---- MODULE Spec2Model ----
(***************************************************************************)
(* ffmpeg_bitrate_stats.bitrate_stats: the BitrateStats class.             *)
(*                                                                         *)
(* One BitrateStats instance and the packet list ffprobe reports for its   *)
(* input file.  The state is the instance's attributes; the actions are    *)
(* the constructor and the public methods, each modelled as a whole        *)
(* (calculate_statistics runs the entire pipeline, up to the point where   *)
(* an exception leaves it).                                                *)
(*                                                                         *)
(* Numbers.  Python floats are modelled as exact rationals in the units    *)
(* of the source (seconds, bytes, kbit/s); a value is a record             *)
(*   [k |-> "num", n |-> numerator, d |-> denominator > 0]   (reduced)     *)
(*   [k |-> "nan", ...]    float nan, and the "NaN" string of FrameEntry   *)
(*   [k |-> "absent", ...] a key the ffprobe packet does not carry         *)
(*   [k |-> "unset", ...]  an attribute not assigned yet                   *)
(***************************************************************************)
EXTENDS Integers, Sequences, FiniteSets, TLC

VARIABLES
    info,                    \* json.loads(stdout)["packets"]: the file's packets
    args,                    \* the arguments the caller passes to BitrateStats(...)
    status,                  \* "new" | "constructed" | "rejected" | "exited"
    stream_type,             \* self.stream_type
    aggregation,             \* self.aggregation
    chunk_size,              \* self.chunk_size
    frames,                  \* self.frames
    duration,                \* self.duration
    fps,                     \* self.fps
    max_bitrate,             \* self.max_bitrate
    min_bitrate,             \* self.min_bitrate
    avg_bitrate,             \* self.avg_bitrate
    avg_bitrate_over_chunks, \* self.avg_bitrate_over_chunks
    max_bitrate_factor,      \* self.max_bitrate_factor
    bitrate_stats,           \* self.bitrate_stats
    _chunks,                 \* self._chunks
    aggregation_chunks,      \* the local list of the last _collect_chunks run that built one
    last_op,                 \* the method called last
    output_format,           \* the argument of that call, for print_statistics
    raised,                  \* the exception that call raised, or "none"
    calls,                   \* calculate_statistics calls made so far
    probes,                  \* ffprobe runs made so far (run_command)
    allocs,                  \* summary dicts built so far (object identities)
    succeeded                \* some calculate_statistics call has returned normally

vars == <<info, args, status, stream_type, aggregation, chunk_size, frames,
          duration, fps, max_bitrate, min_bitrate, avg_bitrate,
          avg_bitrate_over_chunks, max_bitrate_factor, bitrate_stats, _chunks,
          aggregation_chunks, last_op, output_format, raised, calls, probes, allocs,
          succeeded>>

(***************************************************************************)
(* Bounds of the model.                                                    *)
(***************************************************************************)
MaxLen == 2        \* packets in the file, general specification
MaxLenRepair == 3  \* packets in the file, duration-repair specification
MaxLenChunk == 3   \* packets in the file, chunker specification
MaxCalls == 2      \* calculate_statistics calls per instance

(***************************************************************************)
(* Float arithmetic, as exact rationals.                                   *)
(***************************************************************************)
Abs(x) == IF x < 0 THEN -x ELSE x

RECURSIVE Gcd(_, _)
Gcd(a, b) == IF b = 0 THEN a ELSE Gcd(b, a % b)

\* the rational n/d (d # 0), reduced, denominator positive
Rat(n, d) ==
    LET s == IF d < 0 THEN -1 ELSE 1
        g == Gcd(Abs(n), Abs(d))
    IN  [k |-> "num", n |-> (s * n) \div g, d |-> (s * d) \div g]

Num(i) == [k |-> "num", n |-> i, d |-> 1]
NaN == [k |-> "nan", n |-> 0, d |-> 1]
Absent == [k |-> "absent", n |-> 0, d |-> 1]
Unset == [k |-> "unset", n |-> 0, d |-> 1]

IsNum(x) == x.k = "num"
IsNaN(x) == x.k = "nan"
IsZero(x) == IsNum(x) /\ x.n = 0

\* x + y, x - y: nan when either operand is nan
FAdd(x, y) == IF IsNum(x) /\ IsNum(y) THEN Rat(x.n * y.d + y.n * x.d, x.d * y.d) ELSE NaN
FSub(x, y) == IF IsNum(x) /\ IsNum(y) THEN Rat(x.n * y.d - y.n * x.d, x.d * y.d) ELSE NaN

\* x / y for y # 0 (the callers raise ZeroDivisionError before dividing by 0)
FDiv(x, y) == IF IsNum(x) /\ IsNum(y) THEN Rat(x.n * y.d, x.d * y.n) ELSE NaN

\* x < y: False when either operand is nan
FLess(x, y) == IsNum(x) /\ IsNum(y) /\ x.n * y.d < y.n * x.d

RECURSIVE Pow10(_)
Pow10(e) == IF e = 0 THEN 1 ELSE 10 * Pow10(e - 1)

\* round(x, digits): to the nearest multiple of 10^-digits, ties to even; nan stays nan
Round(x, digits) ==
    IF ~IsNum(x) THEN x
    ELSE LET p == x.n * Pow10(digits)
             f == p \div x.d
             r == p % x.d
             m == IF 2 * r < x.d THEN f
                  ELSE IF 2 * r > x.d THEN f + 1
                  ELSE IF f % 2 = 0 THEN f ELSE f + 1
         IN  Rat(m, Pow10(digits))

(***************************************************************************)
(* Duration repair: _calculate_frame_sizes and _fix_durations.             *)
(***************************************************************************)
HasKey(v) == v.k # "absent"

\* next((x["duration_time"] for x in info if "duration_time" in x.keys()), "NaN")
RECURSIVE FirstDurationFrom(_, _)
FirstDurationFrom(packets, i) ==
    IF i > Len(packets) THEN NaN
    ELSE IF HasKey(packets[i].duration_time) THEN packets[i].duration_time
    ELSE FirstDurationFrom(packets, i + 1)

\* mutant: the last explicit duration of the file instead of the first
DefaultDuration_Last(packets) ==
    LET e == {i \in 1..Len(packets) : HasKey(packets[i].duration_time)}
    IN  IF e = {} THEN NaN
        ELSE packets[CHOOSE i \in e : \A j \in e : j <= i].duration_time

DefaultDuration(packets) == FirstDurationFrom(packets, 1)

\* the FrameEntry appended for packet idx of the loop over info
FrameEntry(packet_info, idx, default_duration) ==
    [n |-> idx,
     frame_type |-> IF packet_info.flags = "K_" THEN "I" ELSE "Non-I",
     pts |-> IF HasKey(packet_info.pts_time) THEN packet_info.pts_time ELSE NaN,
     size |-> packet_info.size,
     duration |-> IF HasKey(packet_info.duration_time) THEN packet_info.duration_time
                  ELSE IF ~IsNaN(default_duration) THEN default_duration
                  ELSE NaN]

\* the loop of _fix_durations from index i on; last_duration is Unset for None
RECURSIVE FixLoop(_, _, _)
FixLoop(ret, i, last_duration) ==
    IF i > Len(ret) - 1 THEN [ret |-> ret, last_duration |-> last_duration]
    ELSE LET curr_pts == ret[i].pts
             next_pts == ret[i + 1].pts
         IN  IF IsNaN(curr_pts) \/ IsNaN(next_pts)
             THEN FixLoop(ret, i + 1, last_duration)
             ELSE LET delta == FSub(next_pts, curr_pts)
                  IN  FixLoop([ret EXCEPT ![i].duration = delta], i + 1, delta)

\* mutant: the last frame does not receive the last computed delta
FixDurations_NoCarry(ret) == FixLoop(ret, 1, Unset).ret

FixDurations(ret) ==
    LET r == FixLoop(ret, 1, Unset)
    IN  IF r.last_duration # Unset
        THEN [r.ret EXCEPT ![Len(ret)].duration = r.last_duration]
        ELSE r.ret

\* the value _calculate_frame_sizes stores in self.frames
CalculateFrameSizes(packets) ==
    LET default_duration == DefaultDuration(packets)
        ret == [i \in 1..Len(packets) |-> FrameEntry(packets[i], i, default_duration)]
    IN  IF IsNaN(default_duration) THEN FixDurations(ret) ELSE ret

(***************************************************************************)
(* _calculate_duration, _calculate_fps.                                    *)
(***************************************************************************)
RECURSIVE SumDurations(_, _)
SumDurations(fs, i) ==
    IF i > Len(fs) THEN Num(0)
    ELSE IF IsNaN(fs[i].duration) THEN SumDurations(fs, i + 1)
    ELSE FAdd(fs[i].duration, SumDurations(fs, i + 1))

\* mutant: the duration as the span of the presentation times
CalculateDuration_PtsSpan(fs) ==
    IF Len(fs) = 0 THEN Num(0) ELSE Round(FSub(fs[Len(fs)].pts, fs[1].pts), 2)

CalculateDuration(fs) == Round(SumDurations(fs, 1), 2)

RECURSIVE SumSizes(_, _)
SumSizes(fs, i) == IF i > Len(fs) THEN 0 ELSE fs[i].size + SumSizes(fs, i + 1)

(***************************************************************************)
(* _collect_chunks and _bitrate_for_frame_list.                            *)
(***************************************************************************)
\* the loop body of the gop branch, on the pair (aggregation_chunks, curr_list)
\* mutant: a Key frame is appended to the open chunk before that chunk is closed
GopStep_KeyJoinsOpenChunk(st, frame) ==
    LET c1 == Append(st.curr_list, frame)
    IN  IF frame.frame_type = "I"
        THEN [aggregation_chunks |-> Append(st.aggregation_chunks, c1),
              curr_list |-> <<frame>>]
        ELSE [aggregation_chunks |-> st.aggregation_chunks, curr_list |-> c1]

GopStep(st, frame) ==
    LET c1 == IF frame.frame_type # "I" THEN Append(st.curr_list, frame) ELSE st.curr_list
    IN  IF frame.frame_type = "I"
        THEN [aggregation_chunks |-> IF c1 # <<>> THEN Append(st.aggregation_chunks, c1)
                                     ELSE st.aggregation_chunks,
              curr_list |-> <<frame>>]
        ELSE [aggregation_chunks |-> st.aggregation_chunks, curr_list |-> c1]

RECURSIVE GopLoop(_, _, _)
GopLoop(fs, i, st) ==
    IF i > Len(fs) THEN Append(st.aggregation_chunks, st.curr_list)
    ELSE GopLoop(fs, i + 1, GopStep(st, fs[i]))

GopChunks(fs) == GopLoop(fs, 1, [aggregation_chunks |-> <<>>, curr_list |-> <<>>])

\* the loop body of the time branch, on (aggregation_chunks, curr_list, agg_time)
\* mutant: the frame that closes a chunk is dropped instead of opening the next one
TimeStep_DropsTrigger(st, frame, size) ==
    IF FLess(st.agg_time, Num(size))
    THEN [aggregation_chunks |-> st.aggregation_chunks,
          curr_list |-> Append(st.curr_list, frame),
          agg_time |-> FAdd(st.agg_time, frame.duration)]
    ELSE [aggregation_chunks |-> Append(st.aggregation_chunks, st.curr_list),
          curr_list |-> <<>>,
          agg_time |-> Num(0)]

\* mutant: a chunk is closed only once the sum exceeds the chunk size (<= for <)
TimeStep_ClosesLate(st, frame, size) ==
    IF ~FLess(Num(size), st.agg_time)
    THEN [aggregation_chunks |-> st.aggregation_chunks,
          curr_list |-> Append(st.curr_list, frame),
          agg_time |-> FAdd(st.agg_time, frame.duration)]
    ELSE [aggregation_chunks |-> IF st.curr_list # <<>>
                                 THEN Append(st.aggregation_chunks, st.curr_list)
                                 ELSE st.aggregation_chunks,
          curr_list |-> <<frame>>,
          agg_time |-> frame.duration]

TimeStep(st, frame, size) ==
    IF FLess(st.agg_time, Num(size))
    THEN [aggregation_chunks |-> st.aggregation_chunks,
          curr_list |-> Append(st.curr_list, frame),
          agg_time |-> FAdd(st.agg_time, frame.duration)]
    ELSE [aggregation_chunks |-> IF st.curr_list # <<>>
                                 THEN Append(st.aggregation_chunks, st.curr_list)
                                 ELSE st.aggregation_chunks,
          curr_list |-> <<frame>>,
          agg_time |-> frame.duration]

RECURSIVE TimeLoop(_, _, _, _)
TimeLoop(fs, i, st, size) ==
    IF i > Len(fs) THEN Append(st.aggregation_chunks, st.curr_list)
    ELSE TimeLoop(fs, i + 1, TimeStep(st, fs[i], size), size)

TimeChunks(fs, size) ==
    TimeLoop(fs, 1, [aggregation_chunks |-> <<>>, curr_list |-> <<>>, agg_time |-> Num(0)], size)

\* the list aggregation_chunks at the end of the if/else of _collect_chunks
AggregationChunks(fs, mode, size) ==
    IF mode = "gop" THEN GopChunks(fs) ELSE TimeChunks(fs, size)

\* pts[last] - pts[first] of a list of at least 2 frames
ChunkSpan(frame_list) == FSub(frame_list[Len(frame_list)].pts, frame_list[1].pts)

\* _bitrate_for_frame_list raises ZeroDivisionError
BitrateRaises(frame_list) == Len(frame_list) >= 2 /\ IsZero(ChunkSpan(frame_list))

\* _bitrate_for_frame_list, where it returns
BitrateForFrameList(frame_list) ==
    IF Len(frame_list) < 2 THEN NaN
    ELSE FDiv(Rat(SumSizes(frame_list, 1) * 8, 1000), ChunkSpan(frame_list))

\* the cache check at the top of _collect_chunks: what the call returns, given the
\* cached list and the list a fresh computation yields
\* mutant: the list is extended on every call instead of being returned from the cache
CollectChunks_Extends(cached, computed) == cached \o computed

CollectChunks(cached, computed) == IF Len(cached) > 0 THEN cached ELSE computed

\* max(list) and min(list) of Python on a non-empty list of floats
RECURSIVE PyMax(_, _, _)
PyMax(xs, i, best) ==
    IF i > Len(xs) THEN best
    ELSE PyMax(xs, i + 1, IF FLess(best, xs[i]) THEN xs[i] ELSE best)

RECURSIVE PyMin(_, _, _)
PyMin(xs, i, best) ==
    IF i > Len(xs) THEN best
    ELSE PyMin(xs, i + 1, IF FLess(xs[i], best) THEN xs[i] ELSE best)

Max(xs) == PyMax(xs, 2, xs[1])
Min(xs) == PyMin(xs, 2, xs[1])

RECURSIVE FSum(_, _)
FSum(xs, i) == IF i > Len(xs) THEN Num(0) ELSE FAdd(xs[i], FSum(xs, i + 1))

\* np.mean(list)
Mean(xs) == FDiv(FSum(xs, 1), Num(Len(xs)))

(***************************************************************************)
(* The summary dict of _assemble_bitrate_statistics.                       *)
(***************************************************************************)
rounding_factor == 3

None == [none |-> TRUE]

\* self.avg_bitrate, for a duration that is not 0
AvgBitrate(fs, dur) == FDiv(Rat(SumSizes(fs, 1) * 8, 1000), dur)

\* ret of _assemble_bitrate_statistics; oid is the identity of the new dict
Summary(oid, stype, mode, size, fs, dur, fps_, avg, chunks, maxbr, minbr) ==
    [oid |-> oid,
     stream_type |-> stype,
     avg_fps |-> Round(fps_, rounding_factor),
     num_frames |-> Len(fs),
     avg_bitrate |-> Round(avg, rounding_factor),
     avg_bitrate_over_chunks |-> Round(Mean(chunks), rounding_factor),
     max_bitrate |-> Round(maxbr, rounding_factor),
     min_bitrate |-> Round(minbr, rounding_factor),
     max_bitrate_factor |-> Round(FDiv(maxbr, avg), rounding_factor),
     bitrate_per_chunk |-> [i \in 1..Len(chunks) |-> Round(chunks[i], rounding_factor)],
     aggregation |-> mode,
     chunk_size |-> size,
     duration |-> Round(dur, rounding_factor)]

(***************************************************************************)
(* The constructor.                                                        *)
(***************************************************************************)
\* the checks of __init__ that raise ValueError
InitRaises(a) ==
    \/ a.stream_type \notin {"audio", "video"}
    \/ a.aggregation \notin {"time", "gop"}
    \/ (a.aggregation = "gop" /\ a.stream_type = "audio")
    \/ (a.chunk_size # 0 /\ a.chunk_size < 0)

BitrateStats_init ==
    /\ status = "new"
    /\ last_op' = "__init__"
    /\ output_format' = ""
    /\ IF InitRaises(args)
       THEN /\ status' = "rejected"
            /\ raised' = "ValueError"
            /\ UNCHANGED <<stream_type, aggregation, chunk_size, duration, fps,
                           max_bitrate, min_bitrate>>
       ELSE /\ status' = "constructed"
            /\ raised' = "none"
            /\ stream_type' = args.stream_type
            /\ aggregation' = args.aggregation
            /\ chunk_size' = args.chunk_size
            /\ duration' = Num(0)
            /\ fps' = Num(0)
            /\ max_bitrate' = Num(0)
            /\ min_bitrate' = Num(0)
    /\ UNCHANGED <<info, args, frames, avg_bitrate, avg_bitrate_over_chunks,
                   max_bitrate_factor, bitrate_stats, _chunks, aggregation_chunks,
                   calls, probes, allocs, succeeded>>

(***************************************************************************)
(* calculate_statistics: the pipeline, up to the step that raises.         *)
(*   stage 0: sys.exit(0) of the dry run                                   *)
(*   stage 1: ZeroDivisionError in _calculate_fps                          *)
(*   stage 2: ZeroDivisionError in _bitrate_for_frame_list                 *)
(*   stage 3: ZeroDivisionError at max_bitrate / avg_bitrate               *)
(*   stage 4: the summary is returned                                      *)
(***************************************************************************)
calculate_statistics ==
    /\ status = "constructed"
    /\ calls < MaxCalls
    /\ \E fs \in {CalculateFrameSizes(info)} :
       \E dur \in {CalculateDuration(fs)} :
       \E built \in {AggregationChunks(fs, aggregation, chunk_size)} :
       \E rebuild \in {Len(_chunks) = 0} :
       \E raises \in {\E i \in 1..Len(built) : BitrateRaises(built[i])} :
       \E cks \in {CollectChunks(_chunks,
                     IF raises THEN <<>>
                     ELSE [i \in 1..Len(built) |-> BitrateForFrameList(built[i])])} :
       \E avg \in {IF IsZero(dur) THEN NaN ELSE AvgBitrate(fs, dur)} :
       \E stage \in {IF args.dry_run THEN 0
                     ELSE IF IsZero(dur) THEN 1
                     ELSE IF rebuild /\ raises THEN 2
                     ELSE IF IsZero(avg) THEN 3
                     ELSE 4} :
           /\ last_op' = "calculate_statistics"
           /\ output_format' = ""
           /\ calls' = calls + 1
           /\ status' = IF stage = 0 THEN "exited" ELSE status
           /\ raised' = IF stage = 0 THEN "SystemExit"
                        ELSE IF stage = 4 THEN "none" ELSE "ZeroDivisionError"
           /\ probes' = IF stage >= 1 THEN probes + 1 ELSE probes
           /\ frames' = IF stage >= 1 THEN fs ELSE frames
           /\ duration' = IF stage >= 1 THEN dur ELSE duration
           /\ fps' = IF stage >= 2 THEN FDiv(Num(Len(fs)), dur) ELSE fps
           /\ aggregation_chunks' = IF stage >= 2 /\ rebuild THEN built
                                    ELSE aggregation_chunks
           /\ _chunks' = IF stage >= 3 THEN cks ELSE _chunks
           /\ max_bitrate' = IF stage >= 3 THEN Max(cks) ELSE max_bitrate
           /\ min_bitrate' = IF stage >= 3 THEN Min(cks) ELSE min_bitrate
           /\ avg_bitrate' = IF stage >= 3 THEN avg ELSE avg_bitrate
           /\ avg_bitrate_over_chunks' = IF stage >= 3 THEN Mean(cks)
                                         ELSE avg_bitrate_over_chunks
           /\ max_bitrate_factor' = IF stage = 4 THEN FDiv(Max(cks), avg)
                                    ELSE max_bitrate_factor
           /\ allocs' = IF stage = 4 THEN allocs + 1 ELSE allocs
           /\ bitrate_stats' =
                 IF stage = 4
                 THEN Summary(allocs + 1, stream_type, aggregation, chunk_size, fs, dur,
                              FDiv(Num(Len(fs)), dur), avg, cks, Max(cks), Min(cks))
                 ELSE bitrate_stats
           /\ succeeded' = (succeeded \/ stage = 4)
    /\ UNCHANGED <<info, args, stream_type, aggregation, chunk_size>>

(***************************************************************************)
(* The output methods.                                                     *)
(***************************************************************************)
\* "if not self.bitrate_stats: raise RuntimeError" of get_csv and get_json
\* mutant: the check for missing statistics is left out
NoStats_Unchecked(stats) == FALSE

NoStats(stats) == stats = None

Output(op, fmt, exc) ==
    /\ status = "constructed"
    /\ last_op' = op
    /\ output_format' = fmt
    /\ raised' = exc
    /\ UNCHANGED <<info, args, status, stream_type, aggregation, chunk_size, frames,
                   duration, fps, max_bitrate, min_bitrate, avg_bitrate,
                   avg_bitrate_over_chunks, max_bitrate_factor, bitrate_stats, _chunks,
                   aggregation_chunks, calls, probes, allocs, succeeded>>

get_csv == Output("get_csv", "", IF NoStats(bitrate_stats) THEN "RuntimeError" ELSE "none")

get_json == Output("get_json", "", IF NoStats(bitrate_stats) THEN "RuntimeError" ELSE "none")

OutputFormats == {"csv", "json", "xml"}

print_statistics ==
    \E fmt \in OutputFormats :
        Output("print_statistics", fmt,
               IF fmt \in {"csv", "json"}
               THEN (IF NoStats(bitrate_stats) THEN "RuntimeError" ELSE "none")
               ELSE "ValueError")

Next ==
    \/ BitrateStats_init
    \/ calculate_statistics
    \/ get_csv
    \/ get_json
    \/ print_statistics

(***************************************************************************)
(* Initial states: a file (its packet list) and the constructor arguments  *)
(* of a caller, before BitrateStats(...) runs.                             *)
(***************************************************************************)
SeqsUpTo(S, n) == UNION {[1..m -> S] : m \in 0..n}

Packets(flagset, ptsset, durset, sizeset) ==
    [flags : flagset, pts_time : ptsset, duration_time : durset, size : sizeset]

Args(stypes, modes, sizes, dry) ==
    [stream_type : stypes, aggregation : modes, chunk_size : sizes, dry_run : dry]

InitWith(files, argset) ==
    /\ info \in files
    /\ args \in argset
    /\ status = "new"
    /\ stream_type = ""
    /\ aggregation = ""
    /\ chunk_size = 0
    /\ frames = <<>>
    /\ duration = Unset
    /\ fps = Unset
    /\ max_bitrate = Unset
    /\ min_bitrate = Unset
    /\ avg_bitrate = Unset
    /\ avg_bitrate_over_chunks = Unset
    /\ max_bitrate_factor = Unset
    /\ bitrate_stats = None
    /\ _chunks = <<>>
    /\ aggregation_chunks = <<>>
    /\ last_op = ""
    /\ output_format = ""
    /\ raised = "none"
    /\ calls = 0
    /\ probes = 0
    /\ allocs = 0
    /\ succeeded = FALSE

\* the packets of the whole-stream scenario: sizes 1000, 2000, 1000 bytes, pts 0, 1, 2,
\* a duration of 1 each
ScenarioFile ==
    <<[flags |-> "K_", pts_time |-> Num(0), duration_time |-> Num(1), size |-> 1000],
      [flags |-> "__", pts_time |-> Num(1), duration_time |-> Num(1), size |-> 2000],
      [flags |-> "__", pts_time |-> Num(2), duration_time |-> Num(1), size |-> 1000]>>

\* the frame types Key, NonKey, NonKey, Key, NonKey at a constant frame rate
GopFile ==
    [i \in 1..5 |-> [flags |-> IF i \in {1, 4} THEN "K_" ELSE "__",
                     pts_time |-> Num(i - 1), duration_time |-> Num(1), size |-> 1000]]

\* general: every kind of packet in short files, both aggregation modes
Init ==
    InitWith(SeqsUpTo(Packets({"K_", "__"}, {Absent, Num(0), Num(1)},
                              {Absent, Num(1)}, {1000, 2000}), MaxLen),
             Args({"video"}, {"time", "gop"}, {1}, {FALSE}))

\* duration repair: files that differ in which packets carry which times
InitRepair ==
    InitWith(SeqsUpTo(Packets({"K_"}, {Absent, Num(0), Num(1), Num(2)},
                              {Absent, Rat(1, 2), Num(1)}, {1000}), MaxLenRepair),
             Args({"video"}, {"time"}, {1}, {FALSE}))

\* the chunker: files that differ in frame types and durations
\* (packets without a duration, with or without a time stamp, and packets with both)
InitChunk ==
    InitWith(SeqsUpTo(Packets({"K_", "__"}, {Absent, Num(0), Num(1)}, {Absent}, {1000})
                      \cup Packets({"K_", "__"}, {Num(1)}, {Num(1)}, {1000}),
                      MaxLenChunk) \cup {GopFile},
             Args({"video"}, {"time"}, {1, 2}, {FALSE})
             \cup Args({"video"}, {"gop"}, {1}, {FALSE}))

\* configuration: every combination of constructor arguments on a few files
InitConfig ==
    InitWith({<<>>, ScenarioFile, GopFile},
             Args({"audio", "video", "subtitle"}, {"time", "gop", "frame"},
                  {-1, 0, 1, 2}, BOOLEAN))

Spec == Init /\ [][Next]_vars

SpecRepair == InitRepair /\ [][Next]_vars

SpecChunk == InitChunk /\ [][Next]_vars

SpecConfig == InitConfig /\ [][Next]_vars

(***************************************************************************)
(* Properties.                                                             *)
(***************************************************************************)
\* a call has read the packets into self.frames
Probed == probes > 0

\* a _collect_chunks run has built its list of chunks
Built == aggregation_chunks # <<>>

Explicit(i) == HasKey(info[i].duration_time)
HasPts(i) == HasKey(info[i].pts_time)
SomeExplicit == \E i \in 1..Len(info) : Explicit(i)
AllExplicit == \A i \in 1..Len(info) : Explicit(i)

RECURSIVE Concat(_, _)
Concat(cs, k) == IF k > Len(cs) THEN <<>> ELSE cs[k] \o Concat(cs, k + 1)

\* C1: in both aggregation modes the chunks of aggregation_chunks, concatenated in
\* chunk order, are exactly the packet sequence self.frames: nothing lost,
\* duplicated or reordered.
ThmC1_ChunksConcatenate == Built => Concat(aggregation_chunks, 1) = frames

\* a time-mode run with an undefined duration that closed a chunk of two packets
WitC1_TwoChunks ==
    /\ Built
    /\ aggregation = "time"
    /\ Len(aggregation_chunks) >= 2
    /\ Len(aggregation_chunks[1]) >= 2
    /\ \E i \in 1..Len(frames) : IsNaN(frames[i].duration)

KeyCount(fs) == Cardinality({i \in 1..Len(fs) : fs[i].frame_type = "I"})

\* C8: in gop mode every chunk but the first starts with a Key frame, no Key frame
\* sits at a later position of a chunk, the number of chunks is the number of Key
\* frames plus one when the sequence starts with a NonKey frame, and the frame
\* types Key, NonKey, NonKey, Key, NonKey give two chunks of lengths 3 and 2.
ThmC8_GopChunks ==
    (aggregation = "gop" /\ Built) =>
        LET c == aggregation_chunks
        IN  /\ \A k \in 2..Len(c) : c[k] # <<>> /\ c[k][1].frame_type = "I"
            /\ \A k \in 1..Len(c) : \A j \in 2..Len(c[k]) : c[k][j].frame_type # "I"
            /\ Len(frames) >= 1 =>
                  Len(c) = KeyCount(frames) + (IF frames[1].frame_type # "I" THEN 1 ELSE 0)
            /\ info = GopFile => (Len(c) = 2 /\ Len(c[1]) = 3 /\ Len(c[2]) = 2)

\* the gop run on Key, NonKey, NonKey, Key, NonKey
WitC8_GopExample == aggregation = "gop" /\ Built /\ info = GopFile

RECURSIVE PrefixDuration(_, _)
PrefixDuration(chunk, j) ==
    IF j = 0 THEN Num(0) ELSE FAdd(PrefixDuration(chunk, j - 1), chunk[j].duration)

AllDurationsDefined == \A i \in 1..Len(frames) : IsNum(frames[i].duration)

\* C9: in time mode with every duration defined, every chunk but the last has an
\* accumulated duration of at least chunk_size, and within every chunk the
\* duration accumulated before each later packet is below chunk_size: the packet
\* examined once the sum has reached chunk_size starts the next chunk, whose sum
\* starts from that packet's own duration.
ThmC9_TimeChunks ==
    (aggregation = "time" /\ Built /\ AllDurationsDefined) =>
        LET c == aggregation_chunks
        IN  \A k \in 1..Len(c) :
               /\ c[k] # <<>>
               /\ k < Len(c) => ~FLess(PrefixDuration(c[k], Len(c[k])), Num(chunk_size))
               /\ \A j \in 1..(Len(c[k]) - 1) :
                     FLess(PrefixDuration(c[k], j), Num(chunk_size))

\* a time-mode run that closed a chunk of two packets and opened another
WitC9_ClosedChunk ==
    /\ aggregation = "time"
    /\ Built
    /\ AllDurationsDefined
    /\ Len(aggregation_chunks) >= 2
    /\ Len(aggregation_chunks[1]) >= 2

Pairs == {i \in 1..(Len(info) - 1) : HasPts(i) /\ HasPts(i + 1)}
Delta(i) == FSub(info[i + 1].pts_time, info[i].pts_time)
LastPair == CHOOSE i \in Pairs : \A j \in Pairs : j <= i
FirstExplicit == CHOOSE i \in 1..Len(info) : Explicit(i) /\ \A j \in 1..(i - 1) : ~Explicit(j)

\* C5: when no packet carries a duration, duration[i] is pts[i+1] - pts[i] (negative
\* deltas included) for every i before the last with both time stamps present and
\* stays undefined otherwise; the last packet receives the delta computed last,
\* and stays undefined when none was computed or the file has fewer than 2 packets.
ThmC5_FixDurations ==
    (Probed /\ ~SomeExplicit) =>
        /\ Len(frames) = Len(info)
        /\ \A i \in 1..(Len(info) - 1) :
              frames[i].duration = IF i \in Pairs THEN Delta(i) ELSE NaN
        /\ Len(info) >= 1 =>
              frames[Len(info)].duration = IF Pairs = {} THEN NaN ELSE Delta(LastPair)
        /\ (Len(info) >= 2 /\ \A i \in 1..Len(info) : HasPts(i)) =>
              frames[Len(info)].duration = frames[Len(info) - 1].duration

\* three packets without durations, a negative delta, the third time stamp missing
WitC5_CarryAcrossGap ==
    /\ Probed
    /\ ~SomeExplicit
    /\ Len(info) = 3
    /\ HasPts(1) /\ HasPts(2) /\ ~HasPts(3)
    /\ FLess(info[2].pts_time, info[1].pts_time)
    /\ IsNaN(frames[2].duration)
    /\ frames[3].duration = frames[1].duration

\* C4 (as amended): when at least one packet carries a duration, every packet that
\* carries one keeps it and every packet that lacks one receives the first
\* explicit duration of the file; no duration is derived from time stamps.
ThmC4_DefaultDuration ==
    (Probed /\ SomeExplicit) =>
        /\ Len(frames) = Len(info)
        /\ \A i \in 1..Len(info) :
              frames[i].duration = IF Explicit(i) THEN info[i].duration_time
                                   ELSE info[FirstExplicit].duration_time

\* C4 (as claimed): whenever some packet lacks a duration, every packet before the
\* last with both time stamps present gets pts[i+1] - pts[i]; durations are left
\* unchanged only when every packet carries one.
OrigC4_DeltaInMixedCase ==
    Probed =>
        IF AllExplicit
        THEN \A i \in 1..Len(info) : frames[i].duration = info[i].duration_time
        ELSE \A i \in Pairs : frames[i].duration = Delta(i)

\* a mixed file: the first packet lacks a duration, two later ones carry different ones
WitC4_MixedFile ==
    /\ Probed
    /\ Len(info) = 3
    /\ ~Explicit(1) /\ Explicit(2) /\ Explicit(3)
    /\ info[2].duration_time # info[3].duration_time
    /\ 1 \in Pairs
    /\ frames[1].duration # Delta(1)

CalcStep == last_op' = "calculate_statistics" /\ calls' = calls + 1

SameFields(s, t) == [s EXCEPT !.oid = 0] = [t EXCEPT !.oid = 0]

\* C3 (as amended): a calculate_statistics call made after one has succeeded, the
\* file being unchanged, succeeds and returns a summary with the same field values;
\* it runs ffprobe and the duration repair again and builds a new summary object,
\* and only the per-chunk bitrates of self._chunks are reused.
ThmC3_RepeatedCall ==
    [][(CalcStep /\ bitrate_stats # None) =>
          /\ raised' = "none"
          /\ SameFields(bitrate_stats', bitrate_stats)
          /\ bitrate_stats'.oid # bitrate_stats.oid
          /\ probes' = probes + 1
          /\ frames' = frames
          /\ _chunks' = _chunks
          /\ aggregation_chunks' = aggregation_chunks]_vars

\* C3 (as claimed): a later call returns the same cached summary object, without a
\* new packet acquisition.
OrigC3_CachedSummary ==
    [][(CalcStep /\ bitrate_stats # None) =>
          /\ raised' = "none"
          /\ bitrate_stats' = bitrate_stats
          /\ probes' = probes]_vars

\* a second call has returned
WitC3_SecondCall ==
    /\ calls = 2
    /\ last_op = "calculate_statistics"
    /\ raised = "none"
    /\ bitrate_stats # None
    /\ Len(_chunks) >= 2

NoTiming == Len(info) >= 1 /\ \A i \in 1..Len(info) : ~Explicit(i) /\ ~HasPts(i)

\* C6: for a file with packets but neither durations nor time stamps, every
\* duration stays undefined, the duration sum leaves them out, and
\* calculate_statistics completes with a summary instead of raising.
ClaimC6_BestEffortSummary ==
    (NoTiming /\ last_op = "calculate_statistics") =>
        /\ \A i \in 1..Len(frames) : IsNaN(frames[i].duration)
        /\ IsZero(duration)
        /\ raised = "none"
        /\ bitrate_stats # None

OutputCall ==
    \/ last_op' \in {"get_csv", "get_json"}
    \/ (last_op' = "print_statistics" /\ output_format' \in {"csv", "json"})

\* C10: get_csv, get_json and print_statistics (csv, json) raise RuntimeError as
\* long as no calculate_statistics call has succeeded, which is as long as
\* self.bitrate_stats is None, and return once one has; they change no attribute.
ThmC10_OutputBeforeSummary ==
    [][OutputCall =>
          /\ raised' = IF succeeded THEN "none" ELSE "RuntimeError"
          /\ succeeded <=> bitrate_stats # None
          /\ UNCHANGED <<status, stream_type, aggregation, chunk_size, frames, duration,
                         fps, max_bitrate, min_bitrate, avg_bitrate,
                         avg_bitrate_over_chunks, max_bitrate_factor, bitrate_stats,
                         _chunks, succeeded>>]_vars

\* get_json raises RuntimeError after a calculate_statistics call that failed
WitC10_AfterFailedCall ==
    /\ last_op = "get_json"
    /\ raised = "RuntimeError"
    /\ calls >= 1
    /\ Len(frames) >= 1

ScenarioRun ==
    /\ info = ScenarioFile
    /\ aggregation = "time"
    /\ chunk_size = 1
    /\ status = "constructed"
    /\ calls >= 1

\* C2 (as amended): for the sizes 1000, 2000, 1000, the pts 0, 1, 2 and a duration of
\* 1 each, in time mode with chunk size 1, the stream duration is the sum of the
\* durations, 3.0, and avg_bitrate is 32 / 3.0 = 10.667 kbit/s.
ThmC2_ScenarioAverage ==
    ScenarioRun =>
        /\ bitrate_stats # None
        /\ duration = Num(3)
        /\ bitrate_stats.avg_bitrate = Rat(10667, 1000)

\* C2 (as claimed): avg_bitrate is 16.0 kbit/s.
OrigC2_ScenarioAverage16 ==
    ScenarioRun => (bitrate_stats # None /\ bitrate_stats.avg_bitrate = Num(16))

\* the scenario has run to its summary
WitC2_ScenarioDone == ScenarioRun /\ succeeded /\ Len(bitrate_stats.bitrate_per_chunk) = 3

ValidConfig(a) ==
    /\ a.stream_type \in {"audio", "video"}
    /\ a.aggregation \in {"time", "gop"}
    /\ ~(a.aggregation = "gop" /\ a.stream_type = "audio")
    /\ a.chunk_size > 0

\* C7: the constructor succeeds only for a stream type audio or video, an
\* aggregation time or gop other than (gop, audio), and a chunk size greater than 0;
\* every other configuration raises ValueError before any pipeline step runs.
ClaimC7_ConfigValidated ==
    status # "new" =>
        /\ (status # "rejected") <=> ValidConfig(args)
        /\ status = "rejected" => (raised = "ValueError" /\ calls = 0 /\ probes = 0)

====
